---- MODULE Spec2Model ----
(***************************************************************************)
(* A model of the log-security-analyzer detection engine:                  *)
(*   log_parser.py        extract_timestamps, get_time_range               *)
(*   config.py            Config                                           *)
(*   security_detector.py the failure classifier and the three aggregators *)
(*   analyzer.py          main                                             *)
(*                                                                         *)
(* A Python str is a sequence of one-character strings, so that the        *)
(* regular expressions, str.lower, the f-string formatting and strptime    *)
(* are computed character by character as the code computes them.          *)
(***************************************************************************)
EXTENDS Integers, Sequences, FiniteSets, TLC

(***************************************************************************)
(* Bounds of the model.                                                    *)
(***************************************************************************)
MaxLines == 3
\* datetime.now().year, the year the analysis runs in
CurrentYear == 2025

(***************************************************************************)
(* Characters.  Ascii lists the characters of the model in code-point      *)
(* order, which is the order Python compares str by.                       *)
(***************************************************************************)
Digit == {"0", "1", "2", "3", "4", "5", "6", "7", "8", "9"}
DigitSeq == <<"0", "1", "2", "3", "4", "5", "6", "7", "8", "9">>
UpperSeq == <<"A", "B", "C", "D", "E", "F", "G", "H", "I", "J", "K", "L", "M",
              "N", "O", "P", "Q", "R", "S", "T", "U", "V", "W", "X", "Y", "Z">>
LowerSeq == <<"a", "b", "c", "d", "e", "f", "g", "h", "i", "j", "k", "l", "m",
              "n", "o", "p", "q", "r", "s", "t", "u", "v", "w", "x", "y", "z">>
Upper == {UpperSeq[i] : i \in 1..26}
Word == Digit \cup Upper \cup {LowerSeq[i] : i \in 1..26} \cup {"_"}
Space == {" ", "\t"}
Ascii == <<"\t", " ", "\"", "+", "-", ".", "/">> \o DigitSeq \o <<":">>
            \o UpperSeq \o <<"[", "]", "_">> \o LowerSeq

Ord(c) == CHOOSE i \in 1..Len(Ascii) : Ascii[i] = c

\* str.lower() on one character, and on a str
LowerOf == [c \in Upper |-> LowerSeq[CHOOSE i \in 1..26 : UpperSeq[i] = c]]
lower_char(c) == IF c \in Upper THEN LowerOf[c] ELSE c
lower(s) == [i \in 1..Len(s) |-> lower_char(s[i])]

\* s[a:b] of Python with 1-based inclusive positions a..b
Slice(s, a, b) == [i \in 1..(b - a + 1) |-> s[a + i - 1]]

\* Python's < on str: code-point lexicographic order
RECURSIVE str_lt(_, _)
str_lt(a, b) ==
    IF Len(b) = 0 THEN FALSE
    ELSE IF Len(a) = 0 THEN TRUE
    ELSE IF a[1] # b[1] THEN Ord(a[1]) < Ord(b[1])
    ELSE str_lt(Tail(a), Tail(b))
str_le(a, b) == a = b \/ str_lt(a, b)

\* int(s) for a str of decimal digits
DigitVal(c) == (CHOOSE i \in 1..10 : DigitSeq[i] = c) - 1
RECURSIVE int(_)
int(s) == IF Len(s) = 0 THEN 0
          ELSE 10 * int(SubSeq(s, 1, Len(s) - 1)) + DigitVal(s[Len(s)])

\* str(n) for n >= 0, and the format specs {n:02d} and %Y (glibc: no padding)
RECURSIVE str(_)
str(n) == IF n < 10 THEN <<DigitSeq[n + 1]>>
          ELSE str(n \div 10) \o <<DigitSeq[(n % 10) + 1]>>
fmt_02d(n) == IF n < 10 THEN <<"0">> \o str(n) ELSE str(n)

(***************************************************************************)
(* Regular-expression pieces.  Every pattern of the program is a           *)
(* concatenation of literals and of runs over character classes that are   *)
(* disjoint from what follows them, so a match at a given start position   *)
(* is unique, and re.search returns the match at the leftmost start.       *)
(***************************************************************************)
\* the position after the longest run of characters of class C from i
RunEnd(s, i, C) ==
    CHOOSE j \in i..(Len(s) + 1) :
        /\ \A k \in i..(j - 1) : s[k] \in C
        /\ (j = Len(s) + 1 \/ s[j] \notin C)

\* n characters of class C at i
ClassAt(s, i, n, C) ==
    /\ i + n - 1 <= Len(s)
    /\ \A k \in i..(i + n - 1) : s[k] \in C

\* the literal lit at i
LitAt(s, i, lit) ==
    /\ i + Len(lit) - 1 <= Len(s)
    /\ \A k \in 1..Len(lit) : s[i + k - 1] = lit[k]

\* the literal lit at i under re.IGNORECASE
LitAtI(s, i, lit) ==
    /\ i + Len(lit) - 1 <= Len(s)
    /\ \A k \in 1..Len(lit) : lower_char(s[i + k - 1]) = lower_char(lit[k])

\* \b between positions i-1 and i
WordBoundary(s, i) ==
    LET before == i > 1 /\ s[i - 1] \in Word
        after  == i <= Len(s) /\ s[i] \in Word
    IN  before # after

\* keyword in line  (str.__contains__)
Contains(line, keyword) ==
    \E i \in 1..(Len(line) - Len(keyword) + 1) : LitAt(line, i, keyword)

\* Python values that may be None are tagged records: None, or a str s
NoneVal == [t |-> "None"]
Str(s) == [t |-> "str", s |-> s]

(***************************************************************************)
(* The log lines a run reads.  Corpus: the three lines of the scenario of  *)
(* the specification (one address, one minute apart), an access-log line   *)
(* of another address, a line whose clock is no time of day, a line that   *)
(* is no failure, and a failure without address or timestamp.              *)
(***************************************************************************)
Corpus == {
    \* Jan 1 10:00:00 Failed password for root from 1.2.3.4
    <<"J","a","n"," ","1"," ","1","0",":","0","0",":","0","0"," ","F","a","i","l","e",
      "d"," ","p","a","s","s","w","o","r","d"," ","f","o","r"," ","r","o","o","t"," ",
      "f","r","o","m"," ","1",".","2",".","3",".","4">>,
    \* Jan 1 10:01:00 Failed password for admin from 1.2.3.4
    <<"J","a","n"," ","1"," ","1","0",":","0","1",":","0","0"," ","F","a","i","l","e",
      "d"," ","p","a","s","s","w","o","r","d"," ","f","o","r"," ","a","d","m","i","n",
      " ","f","r","o","m"," ","1",".","2",".","3",".","4">>,
    \* Jan 1 10:02:00 Failed password for guest from 1.2.3.4
    <<"J","a","n"," ","1"," ","1","0",":","0","2",":","0","0"," ","F","a","i","l","e",
      "d"," ","p","a","s","s","w","o","r","d"," ","f","o","r"," ","g","u","e","s","t",
      " ","f","r","o","m"," ","1",".","2",".","3",".","4">>,
    \* 5.6.7.8 - - [01/Jan/2025:10:00:30 +0000] "GET /login" 401
    <<"5",".","6",".","7",".","8"," ","-"," ","-"," ","[","0","1","/","J","a","n","/",
      "2","0","2","5",":","1","0",":","0","0",":","3","0"," ","+","0","0","0","0","]",
      " ","\"","G","E","T"," ","/","l","o","g","i","n","\""," ","4","0","1">>,
    \* Jan 0 99:00:00 Invalid user test from 1.2.3.4
    <<"J","a","n"," ","0"," ","9","9",":","0","0",":","0","0"," ","I","n","v","a","l",
      "i","d"," ","u","s","e","r"," ","t","e","s","t"," ","f","r","o","m"," ","1",".",
      "2",".","3",".","4">>,
    \* Jan 1 10:00:30 Accepted password for root from 1.2.3.4
    <<"J","a","n"," ","1"," ","1","0",":","0","0",":","3","0"," ","A","c","c","e","p",
      "t","e","d"," ","p","a","s","s","w","o","r","d"," ","f","o","r"," ","r","o","o",
      "t"," ","f","r","o","m"," ","1",".","2",".","3",".","4">>,
    \* unauthorized access
    <<"u","n","a","u","t","h","o","r","i","z","e","d"," ","a","c","c","e","s","s">>}


\* lines for the username patterns
UserCorpus == {
    \* Failed password for root from 1.2.3.4
    <<"F","a","i","l","e","d"," ","p","a","s","s","w","o","r","d"," ","f","o","r"," ",
      "r","o","o","t"," ","f","r","o","m"," ","1",".","2",".","3",".","4">>,
    \* Failed password for invalid user admin from 1.2.3.4
    <<"F","a","i","l","e","d"," ","p","a","s","s","w","o","r","d"," ","f","o","r"," ",
      "i","n","v","a","l","i","d"," ","u","s","e","r"," ","a","d","m","i","n"," ","f",
      "r","o","m"," ","1",".","2",".","3",".","4">>,
    \* Invalid user invalid login: bob 1.2.3.4
    <<"I","n","v","a","l","i","d"," ","u","s","e","r"," ","i","n","v","a","l","i","d",
      " ","l","o","g","i","n",":"," ","b","o","b"," ","1",".","2",".","3",".","4">>,
    \* Failed password for from from 1.2.3.4
    <<"F","a","i","l","e","d"," ","p","a","s","s","w","o","r","d"," ","f","o","r"," ",
      "f","r","o","m"," ","f","r","o","m"," ","1",".","2",".","3",".","4">>,
    \* 401 USERNAME: Alice 1.2.3.4
    <<"4","0","1"," ","U","S","E","R","N","A","M","E",":"," ","A","l","i","c","e"," ",
      "1",".","2",".","3",".","4">>,
    \* 401 user Failed login: Zed 1.2.3.4
    <<"4","0","1"," ","u","s","e","r"," ","F","a","i","l","e","d"," ","l","o","g","i",
      "n",":"," ","Z","e","d"," ","1",".","2",".","3",".","4">>,
    \* 401 session opened 1.2.3.4
    <<"4","0","1"," ","s","e","s","s","i","o","n"," ","o","p","e","n","e","d"," ","1",
      ".","2",".","3",".","4">>}

\* lines for the failure classifier
ClassifyCorpus == {
    \* FAILED PASSWORD for x
    <<"F","A","I","L","E","D"," ","P","A","S","S","W","O","R","D"," ","f","o","r"," ",
      "x">>,
    \* error 4010
    <<"e","r","r","o","r"," ","4","0","1","0">>,
    \* Invalid user bob
    <<"I","n","v","a","l","i","d"," ","u","s","e","r"," ","b","o","b">>,
    \* login ok
    <<"l","o","g","i","n"," ","o","k">>,
    \* Access DENIED
    <<"A","c","c","e","s","s"," ","D","E","N","I","E","D">>}

\* lines for the address extractor: two addresses, none, one, and an address
\* with an octet above 255 before digits that are no address
ExtractCorpus == {
    \* 1.2.3.4 to 5.6.7.8 Jan 1 10:00:00
    <<"1",".","2",".","3",".","4"," ","t","o"," ","5",".","6",".","7",".","8"," ","J",
      "a","n"," ","1"," ","1","0",":","0","0",":","0","0">>,
    \* no address
    <<"n","o"," ","a","d","d","r","e","s","s">>,
    \* Jan 1 10:01:00 from 1.2.3.4
    <<"J","a","n"," ","1"," ","1","0",":","0","1",":","0","0"," ","f","r","o","m"," ",
      "1",".","2",".","3",".","4">>,
    \* [01/Jan/2025:10:00:30] 999.1.1.1 1.2.3.4567
    <<"[","0","1","/","J","a","n","/","2","0","2","5",":","1","0",":","0","0",":","3",
      "0","]"," ","9","9","9",".","1",".","1",".","1"," ","1",".","2",".","3",".","4",
      "5","6","7">>}

AllLines == Corpus \cup UserCorpus \cup ClassifyCorpus \cup ExtractCorpus

(***************************************************************************)
(* log_parser.py                                                           *)
(***************************************************************************)
MonthNames == << <<"J","a","n">>, <<"F","e","b">>, <<"M","a","r">>, <<"A","p","r">>,
                 <<"M","a","y">>, <<"J","u","n">>, <<"J","u","l">>, <<"A","u","g">>,
                 <<"S","e","p">>, <<"O","c","t">>, <<"N","o","v">>, <<"D","e","c">> >>

\* month_map.get(month_str, 1)
month_map_get(month_str) ==
    IF \E m \in 1..12 : MonthNames[m] = month_str
    THEN CHOOSE m \in 1..12 : MonthNames[m] = month_str
    ELSE 1

\* (\d{2}):(\d{2}):(\d{2}) at d
ClockAt(s, d) ==
    /\ ClassAt(s, d, 2, Digit)
    /\ LitAt(s, d + 2, <<":">>)
    /\ ClassAt(s, d + 3, 2, Digit)
    /\ LitAt(s, d + 5, <<":">>)
    /\ ClassAt(s, d + 6, 2, Digit)

\* ssh_pattern = (\w{3})\s+(\d{1,2})\s+(\d{2}):(\d{2}):(\d{2}) matched at p
SshDayAt(s, p) == RunEnd(s, p + 3, Space)
SshDayEnd(s, p) == RunEnd(s, SshDayAt(s, p), Digit)
SshClockAt(s, p) == RunEnd(s, SshDayEnd(s, p), Space)
SshAt(s, p) ==
    /\ ClassAt(s, p, 3, Word)
    /\ SshDayAt(s, p) > p + 3
    /\ SshDayEnd(s, p) - SshDayAt(s, p) \in {1, 2}
    /\ SshClockAt(s, p) > SshDayEnd(s, p)
    /\ ClockAt(s, SshClockAt(s, p))

\* re.search(ssh_pattern, line): the leftmost start, 0 when there is no match
ssh_match(s) ==
    IF \E p \in 1..Len(s) : SshAt(s, p)
    THEN CHOOSE p \in 1..Len(s) : SshAt(s, p) /\ \A q \in 1..(p - 1) : ~SshAt(s, q)
    ELSE 0

\* apache_pattern = \[(\d{2})/(\w{3})/(\d{4}):(\d{2}):(\d{2}):(\d{2}) matched at p
ApacheAt(s, p) ==
    /\ LitAt(s, p, <<"[">>)
    /\ ClassAt(s, p + 1, 2, Digit)
    /\ LitAt(s, p + 3, <<"/">>)
    /\ ClassAt(s, p + 4, 3, Word)
    /\ LitAt(s, p + 7, <<"/">>)
    /\ ClassAt(s, p + 8, 4, Digit)
    /\ LitAt(s, p + 12, <<":">>)
    /\ ClockAt(s, p + 13)

apache_match(s) ==
    IF \E p \in 1..Len(s) : ApacheAt(s, p)
    THEN CHOOSE p \in 1..Len(s) : ApacheAt(s, p) /\ \A q \in 1..(p - 1) : ~ApacheAt(s, q)
    ELSE 0

\* f"{year}-{month:02d}-{int(day):02d} {hour}:{minute}:{second}"
format_timestamp(year, month, day, hour, minute, second) ==
    year \o <<"-">> \o fmt_02d(month) \o <<"-">> \o fmt_02d(int(day))
         \o <<" ">> \o hour \o <<":">> \o minute \o <<":">> \o second

\* the timestamp an ssh match at p gives, with the day at b..c-1 and the
\* clock at d; current_year = datetime.now().year
ssh_timestamp(line, p, b, c, d) ==
    Str(format_timestamp(str(CurrentYear),
                         month_map_get(Slice(line, p, p + 2)),
                         Slice(line, b, c - 1),
                         Slice(line, d, d + 1),
                         Slice(line, d + 3, d + 4),
                         Slice(line, d + 6, d + 7)))

\* the timestamp an apache match at q gives
apache_timestamp(line, q) ==
    Str(format_timestamp(Slice(line, q + 8, q + 11),
                         month_map_get(Slice(line, q + 4, q + 6)),
                         Slice(line, q + 1, q + 2),
                         Slice(line, q + 13, q + 14),
                         Slice(line, q + 16, q + 17),
                         Slice(line, q + 19, q + 20)))

\* the ssh match p when there is one, else the apache match q, else None
first_timestamp(line, p, q) ==
    IF p # 0
    THEN ssh_timestamp(line, p, SshDayAt(line, p), SshDayEnd(line, p), SshClockAt(line, p))
    ELSE IF q # 0 THEN apache_timestamp(line, q)
    ELSE NoneVal

\* the body of the loop of extract_timestamps: the timestamp of one line,
\* a str or None
timestamp_of_line(line) == first_timestamp(line, ssh_match(line), apache_match(line))

\* table[key] for a key of the table, otherwise the value computed for it
TableGet(table, key, otherwise) ==
    IF key \in DOMAIN table THEN table[key] ELSE otherwise

\* timestamp_of_line, kept in a table for the lines of the corpora
TimestampTable == [s \in AllLines |-> timestamp_of_line(s)]
extract_timestamp(line) == TableGet(TimestampTable, line, timestamp_of_line(line))

extract_timestamps(lines) ==
    [i \in 1..Len(lines) |-> extract_timestamp(lines[i])]

\* list.sort() / sorted() on a list of str values
RECURSIVE sort_str(_)
sort_str(l) ==
    IF Len(l) <= 1 THEN l
    ELSE LET rest == sort_str(SubSeq(l, 1, Len(l) - 1))
             x    == l[Len(l)]
             k    == Cardinality({i \in 1..Len(rest) : str_le(rest[i].s, x.s)})
         IN  SubSeq(rest, 1, k) \o <<x>> \o SubSeq(rest, k + 1, Len(rest))

\* [x for x in l if keep]
RECURSIVE SelectList(_, _)
SelectList(l, keep) ==
    IF Len(l) = 0 THEN <<>>
    ELSE IF l[1] \in keep THEN <<l[1]>> \o SelectList(Tail(l), keep)
    ELSE SelectList(Tail(l), keep)

\* valid_timestamps = [ts for ts in timestamps if ts is not None]
not_none(timestamps) ==
    SelectList(timestamps, {timestamps[i] : i \in 1..Len(timestamps)} \ {NoneVal})

\* (valid_timestamps[0], valid_timestamps[-1]) after the sort, (None, None)
\* when the list is empty
first_and_last(valid_timestamps) ==
    IF Len(valid_timestamps) = 0
    THEN <<NoneVal, NoneVal>>
    ELSE <<valid_timestamps[1], valid_timestamps[Len(valid_timestamps)]>>

get_time_range(lines) == first_and_last(sort_str(not_none(extract_timestamps(lines))))

(***************************************************************************)
(* datetime: strptime, comparison, + timedelta, strftime                   *)
(***************************************************************************)
is_leap(y) == y % 4 = 0 /\ (y % 100 # 0 \/ y % 400 = 0)
days_in_month(y, m) ==
    IF m = 2 THEN (IF is_leap(y) THEN 29 ELSE 28)
    ELSE IF m \in {4, 6, 9, 11} THEN 30 ELSE 31
days_before_year(y) ==
    (y - 1) * 365 + ((y - 1) \div 4) - ((y - 1) \div 100) + ((y - 1) \div 400)
RECURSIVE days_before_month(_, _)
days_before_month(y, m) ==
    IF m = 1 THEN 0 ELSE days_before_month(y, m - 1) + days_in_month(y, m - 1)
toordinal(dt) ==
    days_before_year(dt.year) + days_before_month(dt.year, dt.month) + dt.day
second_of_day(dt) == (dt.hour * 60 + dt.minute) * 60 + dt.second

ValueError == [t |-> "ValueError"]

\* the datetime of the fields when they are in range, else ValueError
datetime_of(dt) ==
    IF /\ dt.year >= 1
       /\ dt.month \in 1..12
       /\ dt.day \in 1..days_in_month(dt.year, dt.month)
       /\ dt.hour <= 23 /\ dt.minute <= 59 /\ dt.second <= 59
    THEN dt
    ELSE ValueError

\* datetime.strptime(s, "%Y-%m-%d %H:%M:%S"): a datetime or ValueError.
\* The strings it is given here come from format_timestamp, whose fields
\* other than the year are two characters wide.
strptime_parse(s) ==
    IF /\ Len(s) = 19
       /\ ClassAt(s, 1, 4, Digit) /\ s[5] = "-"
       /\ ClassAt(s, 6, 2, Digit) /\ s[8] = "-"
       /\ ClassAt(s, 9, 2, Digit) /\ s[11] = " "
       /\ ClockAt(s, 12)
    THEN datetime_of([year   |-> int(Slice(s, 1, 4)),
                      month  |-> int(Slice(s, 6, 7)),
                      day    |-> int(Slice(s, 9, 10)),
                      hour   |-> int(Slice(s, 12, 13)),
                      minute |-> int(Slice(s, 15, 16)),
                      second |-> int(Slice(s, 18, 19))])
    ELSE ValueError

\* strptime_parse, kept in a table for the timestamps of the lines of the
\* corpora
CorpusTimestamps == {TimestampTable[l] : l \in AllLines} \ {NoneVal}
StrptimeTable == [t \in CorpusTimestamps |-> strptime_parse(t.s)]
strptime(s) == TableGet(StrptimeTable, Str(s), strptime_parse(s))

\* a <= b on datetime
datetime_le(a, b) ==
    \/ toordinal(a) < toordinal(b)
    \/ toordinal(a) = toordinal(b) /\ second_of_day(a) <= second_of_day(b)

\* f <= start + timedelta(seconds = delta)
datetime_le_plus(f, start, delta) ==
    LET total == second_of_day(start) + delta
        day   == toordinal(start) + (total \div 86400)
        sec   == total % 86400
    IN  \/ toordinal(f) < day
        \/ toordinal(f) = day /\ second_of_day(f) <= sec

\* dt.strftime("%Y-%m-%d %H:%M:%S")
strftime(dt) ==
    str(dt.year) \o <<"-">> \o fmt_02d(dt.month) \o <<"-">> \o fmt_02d(dt.day)
        \o <<" ">> \o fmt_02d(dt.hour) \o <<":">> \o fmt_02d(dt.minute)
        \o <<":">> \o fmt_02d(dt.second)

(***************************************************************************)
(* config.py.  A JSON value as json.load returns it: None, bool, int,      *)
(* float (finite ones in halves, nan, inf), str, list, dict (a function    *)
(* from its keys).                                                         *)
(***************************************************************************)
JBool(b) == [t |-> "bool", b |-> b]
JInt(n) == [t |-> "int", n |-> n]
JFloat(h) == [t |-> "float", halves |-> h]
NaN == [t |-> "float", nan |-> TRUE]
Inf == [t |-> "float", inf |-> TRUE]
JList(items) == [t |-> "list", items |-> items]
JDict(m) == [t |-> "dict", m |-> m]

\* the six keywords, written out in DEFAULT_CONFIG, in get_failed_login_keywords
\* and in detect_failed_logins
DefaultKeywords ==
    << Str(<<"f","a","i","l","e","d"," ","p","a","s","s","w","o","r","d">>),
       Str(<<"i","n","v","a","l","i","d"," ","u","s","e","r">>),
       Str(<<"a","u","t","h","e","n","t","i","c","a","t","i","o","n"," ","f","a","i","l","u","r","e">>),
       Str(<<"4","0","1">>),
       Str(<<"4","0","3">>),
       Str(<<"u","n","a","u","t","h","o","r","i","z","e","d">>) >>

DEFAULT_CONFIG ==
    JDict([detection |-> JDict([brute_force_threshold |-> JInt(3),
                              time_window_threshold |-> JInt(5),
                              time_window_minutes   |-> JInt(5)]),
          failed_login_keywords |-> JList(DefaultKeywords)])

\* Config.get(key, default); keys is key.split('.')
RECURSIVE Config_get_from(_, _, _)
Config_get_from(value, keys, default) ==
    IF Len(keys) = 0
    THEN (IF value # NoneVal THEN value ELSE default)
    ELSE IF value.t = "dict"
         THEN LET v == IF keys[1] \in DOMAIN value.m THEN value.m[keys[1]] ELSE NoneVal
              IN  IF v = NoneVal THEN default
                  ELSE Config_get_from(v, Tail(keys), default)
         ELSE default
\* a Config object: self.config
ConfigObj(config) == [t |-> "Config", config |-> config]
Config_get(self, keys, default) == Config_get_from(self.config, keys, default)

\* isinstance(v, int), isinstance(v, (int, float)); bool is a subclass of int
isinstance_int(v) == v.t \in {"int", "bool"}
isinstance_number(v) == v.t \in {"int", "bool", "float"}
\* v <= 0 for a number (nan <= 0 and inf <= 0 are False)
le_zero(v) ==
    IF v.t = "int" THEN v.n <= 0
    ELSE IF v.t = "bool" THEN ~v.b
    ELSE IF v = NaN \/ v = Inf THEN FALSE
    ELSE v.halves <= 0

\* Config._validate_config: TRUE when it returns, FALSE when it raises ValueError
validate_config(self) ==
    LET threshold      == Config_get(self, <<"detection", "brute_force_threshold">>, NoneVal)
        time_threshold == Config_get(self, <<"detection", "time_window_threshold">>, NoneVal)
        window_minutes == Config_get(self, <<"detection", "time_window_minutes">>, NoneVal)
        keywords       == Config_get(self, <<"failed_login_keywords">>, NoneVal)
    IN  /\ threshold # NoneVal => isinstance_int(threshold) /\ ~le_zero(threshold)
        /\ time_threshold # NoneVal => isinstance_int(time_threshold) /\ ~le_zero(time_threshold)
        /\ window_minutes # NoneVal => isinstance_number(window_minutes) /\ ~le_zero(window_minutes)
        /\ keywords # NoneVal =>
              /\ keywords.t = "list"
              /\ Len(keywords.items) # 0
              /\ \A i \in 1..Len(keywords.items) : keywords.items[i].t = "str"

\* Config.__init__ on a configuration file: missing, unreadable (open raises
\* IOError), malformed (json.load raises JSONDecodeError), or holding a JSON value
Config_init(file) ==
    IF file.state = "json" /\ validate_config(ConfigObj(file.value))
    THEN ConfigObj(file.value)
    ELSE ConfigObj(DEFAULT_CONFIG)

get_brute_force_threshold(self) ==
    Config_get(self, <<"detection", "brute_force_threshold">>, JInt(3))
get_time_window_threshold(self) ==
    Config_get(self, <<"detection", "time_window_threshold">>, JInt(5))
get_time_window_minutes(self) ==
    Config_get(self, <<"detection", "time_window_minutes">>, JInt(5))
get_failed_login_keywords(self) ==
    Config_get(self, <<"failed_login_keywords">>, JList(DefaultKeywords))

(***************************************************************************)
(* security_detector.py                                                    *)
(***************************************************************************)
\* the outcome of a call: a returned value or a raised exception
Ok(v) == [status |-> "ok", value |-> v]
Raised(e) == [status |-> "raised", exc |-> e]

\* x in l, for a list l
InList(x, l) == \E i \in 1..Len(l) : l[i] = x

\* the int an int or bool stands for
IntOf(v) == IF v.t = "bool" THEN (IF v.b THEN 1 ELSE 0) ELSE v.n

\* dict.get(k, default) and d[k] = v on a dict held as a function
DictGet(d, k, default) == IF k \in DOMAIN d THEN d[k] ELSE default
DictPut(d, k, v) == [x \in (DOMAIN d) \cup {k} |-> IF x = k THEN v ELSE d[x]]
EmptyDict == [x \in {} |-> 0]

\* the keyword list detect_failed_logins works with
failed_login_keywords(config) ==
    IF config # NoneVal
    THEN get_failed_login_keywords(config).items
    ELSE DefaultKeywords

\* line_lower = line.lower(), kept in a table for the lines of the corpora
LowerTable == [s \in AllLines |-> lower(s)]
line_lower(line) == TableGet(LowerTable, line, lower(line))

\* any(keyword in line_lower for keyword in failed_login_keywords)
any_keyword_in(line, keywords) ==
    \E k \in 1..Len(keywords) : Contains(line_lower(line), keywords[k].s)

\* any_keyword_in under the six default keywords, kept in a table for the
\* lines of the corpora
DefaultKeywordTable == [s \in AllLines |-> any_keyword_in(s, DefaultKeywords)]
is_failed_line(line, keywords) ==
    IF keywords = DefaultKeywords
    THEN TableGet(DefaultKeywordTable, line, any_keyword_in(line, keywords))
    ELSE any_keyword_in(line, keywords)

RECURSIVE failed_loop(_, _)
failed_loop(lines, keywords) ==
    IF Len(lines) = 0 THEN <<>>
    ELSE IF is_failed_line(lines[1], keywords)
         THEN <<lines[1]>> \o failed_loop(Tail(lines), keywords)
         ELSE failed_loop(Tail(lines), keywords)

detect_failed_logins(log_lines, config) ==
    failed_loop(log_lines, failed_login_keywords(config))

\* ip_pattern = \b(\d{1,3}\.\d{1,3}\.\d{1,3}\.\d{1,3})\b matched at p:
\* OctetEnd is the position after a \d{1,3} that starts at i, 0 when none
OctetEnd(s, i) ==
    LET e == RunEnd(s, i, Digit)
    IN  IF i <= Len(s) /\ e - i \in 1..3 THEN e ELSE 0
DotOctetEnd(s, e) ==
    IF e # 0 /\ LitAt(s, e, <<".">>) THEN OctetEnd(s, e + 1) ELSE 0
IpEnd(s, p) == DotOctetEnd(s, DotOctetEnd(s, DotOctetEnd(s, OctetEnd(s, p))))
IpAt(s, p) ==
    /\ WordBoundary(s, p)
    /\ IpEnd(s, p) # 0
    /\ WordBoundary(s, IpEnd(s, p))

\* re.search(ip_pattern, line) and match.group(1): the first address or None
ip_search(s) ==
    IF \E p \in 1..Len(s) : IpAt(s, p)
    THEN LET p == CHOOSE p \in 1..Len(s) : IpAt(s, p) /\ \A q \in 1..(p - 1) : ~IpAt(s, q)
         IN  Str(Slice(s, p, IpEnd(s, p) - 1))
    ELSE NoneVal

\* ip_search, kept in a table for the lines of the corpora
IpTable == [s \in AllLines |-> ip_search(s)]
ip_match(s) == TableGet(IpTable, s, ip_search(s))

\* log_parser.extract_ip_addresses, which uses the same ip_pattern:
\* re.findall(ip_pattern, line) from position pos on, every match in turn,
\* each search going on where the match before it ended
RECURSIVE findall_ip(_, _)
findall_ip(s, pos) ==
    IF \E p \in pos..Len(s) : IpAt(s, p)
    THEN LET p == CHOOSE p \in pos..Len(s) :
                      IpAt(s, p) /\ \A q \in pos..(p - 1) : ~IpAt(s, q)
         IN  <<Str(Slice(s, p, IpEnd(s, p) - 1))>> \o findall_ip(s, IpEnd(s, p))
    ELSE <<>>

\* for line in log_lines: ip_addresses.extend(re.findall(ip_pattern, line))
RECURSIVE extract_ip_addresses(_)
extract_ip_addresses(lines) ==
    IF Len(lines) = 0 THEN <<>>
    ELSE findall_ip(lines[1], 1) \o extract_ip_addresses(Tail(lines))

\* count_ip that records an address without counting its lines
\* (ip_counts[ip] = 1): a variant that C14_CrossAggregatorBounds tells from
\* the code
count_ip_once(ip_counts, match) ==
    IF match # NoneVal THEN DictPut(ip_counts, match.s, 1) ELSE ip_counts

\* ip_counts[ip] = ip_counts.get(ip, 0) + 1 when the line has an address
count_ip(ip_counts, match) ==
    IF match # NoneVal
    THEN DictPut(ip_counts, match.s, DictGet(ip_counts, match.s, 0) + 1)
    ELSE ip_counts

RECURSIVE count_loop(_, _)
count_loop(failed_logins, ip_counts) ==
    IF Len(failed_logins) = 0 THEN ip_counts
    ELSE count_loop(Tail(failed_logins), count_ip(ip_counts, ip_match(failed_logins[1])))

count_failed_logins_by_ip(log_lines, config) ==
    count_loop(detect_failed_logins(log_lines, config), EmptyDict)

\* threshold = config.get_brute_force_threshold() if config else 5
default_brute_force_threshold(config) ==
    IF config # NoneVal THEN get_brute_force_threshold(config) ELSE JInt(5)

\* brute_force_ips with > where the code has >=: a variant that
\* C2_CountAndThreshold tells from the code
brute_force_ips_strict(ip_failures, threshold) ==
    [ip \in {k \in DOMAIN ip_failures : ip_failures[k] > IntOf(threshold)} |->
        ip_failures[ip]]

\* {ip: count for ip, count in ip_failures.items() if count >= threshold}
brute_force_ips(ip_failures, threshold) ==
    [ip \in {k \in DOMAIN ip_failures : ip_failures[k] >= IntOf(threshold)} |->
        ip_failures[ip]]

detect_brute_force_attacks(log_lines, config, threshold) ==
    brute_force_ips(count_failed_logins_by_ip(log_lines, config),
                    IF threshold = NoneVal THEN default_brute_force_threshold(config)
                    ELSE threshold)

\* threshold / window_minutes when the caller passes none
default_time_window_threshold(config) ==
    IF config # NoneVal THEN get_time_window_threshold(config) ELSE JInt(10)
default_time_window_minutes(config) ==
    IF config # NoneVal THEN get_time_window_minutes(config) ELSE JInt(5)

\* timestamps[i] if i < len(timestamps) and timestamps[i] else None
timestamp_str_at(timestamps, i) ==
    IF i <= Len(timestamps) /\ timestamps[i] # NoneVal /\ Len(timestamps[i].s) > 0
    THEN timestamps[i]
    ELSE NoneVal

\* what one line adds to failed_with_time: (ip, timestamp, line) when it is a
\* failed line with an address and a timestamp that strptime parses (the
\* bare except drops a ValueError), else nothing
failed_with_time_of(line, in_failed_logins, ip_match_, timestamp_str) ==
    IF /\ in_failed_logins
       /\ ip_match_ # NoneVal
       /\ timestamp_str # NoneVal
       /\ strptime(timestamp_str.s) # ValueError
    THEN <<[ip |-> ip_match_.s, timestamp |-> strptime(timestamp_str.s), line |-> line]>>
    ELSE <<>>

\* the loop that pairs failed lines with timestamps, from index i on:
\* the list of (ip, timestamp, line)
RECURSIVE failed_with_time_loop(_, _, _, _)
failed_with_time_loop(log_lines, failed_logins, timestamps, i) ==
    IF i > Len(log_lines) THEN <<>>
    ELSE failed_with_time_of(log_lines[i], InList(log_lines[i], failed_logins),
                             ip_match(log_lines[i]), timestamp_str_at(timestamps, i))
            \o failed_with_time_loop(log_lines, failed_logins, timestamps, i + 1)

\* ip_failures[ip].append((timestamp, line)) over failed_with_time
group_by_ip(failed_with_time) ==
    [ip \in {failed_with_time[i].ip : i \in 1..Len(failed_with_time)} |->
        LET Mine(e) == e.ip = ip
            mine == SelectSeq(failed_with_time, Mine)
        IN  [i \in 1..Len(mine) |-> [timestamp |-> mine[i].timestamp, line |-> mine[i].line]]]

\* failures.sort(key=lambda x: x[0]): stable, ascending by timestamp
RECURSIVE sort_failures(_)
sort_failures(l) ==
    IF Len(l) <= 1 THEN l
    ELSE LET rest == sort_failures(SubSeq(l, 1, Len(l) - 1))
             x    == l[Len(l)]
             k    == Cardinality({i \in 1..Len(rest) :
                                    datetime_le(rest[i].timestamp, x.timestamp)})
         IN  SubSeq(rest, 1, k) \o <<x>> \o SubSeq(rest, k + 1, Len(rest))

\* timedelta(minutes=window_minutes) in seconds; nan and inf make it raise
timedelta_raises(window_minutes) == window_minutes = NaN \/ window_minutes = Inf
timedelta_seconds(window_minutes) ==
    IF window_minutes.t = "float" THEN window_minutes.halves * 30
    ELSE IntOf(window_minutes) * 60

\* failures_in_window with the end of the window left out (< where the code
\* has <=): a variant that C1_TimeWindowContract tells from the code
failures_in_window_exclusive(failures, i, window_minutes) ==
    Cardinality({j \in 1..Len(failures) :
        /\ datetime_le(failures[i].timestamp, failures[j].timestamp)
        /\ datetime_le_plus(failures[j].timestamp, failures[i].timestamp,
                            timedelta_seconds(window_minutes) - 1)})

\* len(failures_in_window) for the window that starts at failures[i]
failures_in_window(failures, i, window_minutes) ==
    Cardinality({j \in 1..Len(failures) :
        /\ datetime_le(failures[i].timestamp, failures[j].timestamp)
        /\ datetime_le_plus(failures[j].timestamp, failures[i].timestamp,
                            timedelta_seconds(window_minutes))})

\* the scan over the sorted failures of one ip, from index i on: the record
\* written to brute_force_attacks[ip], or None when no window qualifies
RECURSIVE scan_windows(_, _, _, _)
scan_windows(failures, i, threshold, window_minutes) ==
    IF i > Len(failures) THEN NoneVal
    ELSE IF failures_in_window(failures, i, window_minutes) >= IntOf(threshold)
         THEN [count |-> failures_in_window(failures, i, window_minutes),
               window_start |-> strftime(failures[i].timestamp),
               window_minutes |-> window_minutes]
         ELSE scan_windows(failures, i + 1, threshold, window_minutes)

\* the loop over ip_failures.items(): an ip with fewer failures than the
\* threshold is skipped, the others are sorted and scanned
scan_ip_failures(ip_failures, threshold, window_minutes) ==
    LET checked == {ip \in DOMAIN ip_failures : ~(Len(ip_failures[ip]) < IntOf(threshold))}
    IN  IF timedelta_raises(window_minutes) /\ \E ip \in checked : Len(ip_failures[ip]) > 0
        THEN Raised(IF window_minutes = NaN THEN "ValueError" ELSE "OverflowError")
        ELSE LET found == [ip \in checked |->
                              scan_windows(sort_failures(ip_failures[ip]), 1,
                                           threshold, window_minutes)]
             IN  Ok([ip \in {k \in checked : found[k] # NoneVal} |-> found[ip]])

detect_brute_force_time_window(log_lines, config, threshold, window_minutes) ==
    scan_ip_failures(
        group_by_ip(failed_with_time_loop(log_lines,
                                          detect_failed_logins(log_lines, config),
                                          extract_timestamps(log_lines), 1)),
        IF threshold = NoneVal THEN default_time_window_threshold(config) ELSE threshold,
        IF window_minutes = NoneVal THEN default_time_window_minutes(config)
        ELSE window_minutes)

\* the patterns of extract_usernames_from_line, in the order of the list:
\* lit, then one or more characters of sep, then (\w+), and for the first
\* pattern \s+from after the group
Patterns ==
    << [lit |-> <<"f","o","r">>, sep |-> Space, from |-> TRUE],
       [lit |-> <<"u","s","e","r">>, sep |-> Space, from |-> FALSE],
       [lit |-> <<"u","s","e","r","n","a","m","e">>, sep |-> Space \cup {":"}, from |-> FALSE],
       [lit |-> <<"l","o","g","i","n">>, sep |-> Space \cup {":"}, from |-> FALSE],
       [lit |-> <<"I","n","v","a","l","i","d"," ","u","s","e","r">>, sep |-> Space, from |-> FALSE],
       [lit |-> <<"F","a","i","l","e","d"," ","p","a","s","s","w","o","r","d"," ","f","o","r">>, sep |-> Space, from |-> FALSE] >>

GroupAt(s, p, pat) == RunEnd(s, p + Len(pat.lit), pat.sep)
GroupEnd(s, p, pat) == RunEnd(s, GroupAt(s, p, pat), Word)
PatternAt(s, p, pat) ==
    /\ LitAtI(s, p, pat.lit)
    /\ GroupAt(s, p, pat) > p + Len(pat.lit)
    /\ GroupEnd(s, p, pat) > GroupAt(s, p, pat)
    /\ pat.from =>
          /\ RunEnd(s, GroupEnd(s, p, pat), Space) > GroupEnd(s, p, pat)
          /\ LitAtI(s, RunEnd(s, GroupEnd(s, p, pat), Space), <<"f","r","o","m">>)

\* re.search(pattern, line, re.IGNORECASE) and match.group(1).lower()
pattern_match(s, pat) ==
    IF \E p \in 1..Len(s) : PatternAt(s, p, pat)
    THEN LET p == CHOOSE p \in 1..Len(s) :
                     PatternAt(s, p, pat) /\ \A q \in 1..(p - 1) : ~PatternAt(s, q, pat)
         IN  Str(lower(Slice(s, GroupAt(s, p, pat), GroupEnd(s, p, pat) - 1)))
    ELSE NoneVal

\* the words that are not returned as usernames
NonUsernames == {<<"i","n","v","a","l","i","d">>,
                 <<"f","a","i","l","e","d">>,
                 <<"a","u","t","h","e","n","t","i","c","a","t","i","o","n">>,
                 <<"p","a","s","s","w","o","r","d">>,
                 <<"f","r","o","m">>}

\* first_accepted that lets the first pattern that matches decide (None in
\* place of going on to the next pattern): a variant that
\* C3_FirstAcceptableTokenDecides tells from the code
first_accepted_or_none(match, otherwise) ==
    IF match # NoneVal
    THEN (IF match.s \notin NonUsernames THEN match ELSE NoneVal)
    ELSE otherwise

\* the body of the loop over the patterns: the token is returned when the
\* pattern matches and the token is not one of the filtered words, otherwise
\* the loop goes on
first_accepted(match, otherwise) ==
    IF match # NoneVal /\ match.s \notin NonUsernames THEN match ELSE otherwise

\* the loop over the patterns from the k-th on
RECURSIVE try_patterns(_, _)
try_patterns(line, k) ==
    IF k > Len(Patterns) THEN NoneVal
    ELSE first_accepted(pattern_match(line, Patterns[k]), try_patterns(line, k + 1))

\* the username of a line, kept in a table for the lines of the corpora
UsernameTable == [s \in AllLines |-> try_patterns(s, 1)]
extract_usernames_from_line(line) == TableGet(UsernameTable, line, try_patterns(line, 1))

\* ip_usernames[ip].add(username) when the line has an address and a username
add_username(ip_usernames, ip_match_, username) ==
    IF ip_match_ # NoneVal /\ username # NoneVal
    THEN DictPut(ip_usernames, ip_match_.s,
                 DictGet(ip_usernames, ip_match_.s, {}) \cup {username})
    ELSE ip_usernames

\* the sets ip_usernames[ip], built over the failed lines
RECURSIVE usernames_loop(_, _)
usernames_loop(failed_logins, ip_usernames) ==
    IF Len(failed_logins) = 0 THEN ip_usernames
    ELSE usernames_loop(Tail(failed_logins),
                        add_username(ip_usernames, ip_match(failed_logins[1]),
                                     extract_usernames_from_line(failed_logins[1])))

\* list(a_set): the elements in some order
RECURSIVE SetToList(_)
SetToList(S) ==
    IF S = {} THEN <<>>
    ELSE LET x == CHOOSE x \in S : TRUE IN <<x>> \o SetToList(S \ {x})

\* the str values of a list, and the same from the last to the first
str_values(l) == [i \in 1..Len(l) |-> l[i].s]
str_values_reversed(l) == [i \in 1..Len(l) |-> l[Len(l) + 1 - i].s]

\* sorted_usernames in descending order (a sort with reverse=True): a variant
\* that C4_UsernameDiversity tells from the code
sorted_usernames_descending(usernames) ==
    str_values_reversed(sort_str(SetToList(usernames)))

\* sorted(list(usernames)) as a list of str
sorted_usernames(usernames) == str_values(sort_str(SetToList(usernames)))

\* the ips whose set has at least threshold usernames
suspicious_ips(ip_usernames, threshold) ==
    [ip \in {k \in DOMAIN ip_usernames :
                Cardinality(ip_usernames[k]) >= IntOf(threshold)} |->
        [unique_usernames |-> Cardinality(ip_usernames[ip]),
         usernames |-> sorted_usernames(ip_usernames[ip])]]

\* Config has no get_multiple_username_threshold: with a Config and
\* threshold None the call raises AttributeError
detect_multiple_username_attempts(log_lines, config, threshold) ==
    IF threshold = NoneVal /\ config # NoneVal
    THEN Raised("AttributeError")
    ELSE Ok(suspicious_ips(usernames_loop(detect_failed_logins(log_lines, config),
                                          EmptyDict),
                           IF threshold = NoneVal THEN JInt(3) ELSE threshold))

(***************************************************************************)
(* Inputs of the calls and the configuration files.                         *)
(***************************************************************************)
\* the thresholds and windows (in minutes) a caller passes, None for "not passed"
Thresholds == {NoneVal, JInt(1), JInt(2), JInt(3)}
Windows == {NoneVal, JInt(1), JInt(2)}

\* configuration files: none at the path, and one that sets every detection
\* setting, multiple_username_threshold included
Missing == [state |-> "missing"]
Files ==
    {Missing,
     [state |-> "json",
      value |-> JDict([detection |-> JDict([brute_force_threshold      |-> JInt(2),
                                            time_window_threshold      |-> JInt(2),
                                            time_window_minutes        |-> JInt(1),
                                            multiple_username_threshold |-> JInt(2)])])]}

(***************************************************************************)
(* The state: the configuration file the Config object was built from,     *)
(* config (None until built), the lines read so far, and the last call of  *)
(* a public operation with its outcome.                                    *)
(***************************************************************************)
VARIABLES config_file, config, log_lines, call
vars == <<config_file, config, log_lines, call>>

Idle == [op |-> "none"]
Call(op, cfg, threshold, window_minutes, arg, result) ==
    [op |-> op, config |-> cfg, threshold |-> threshold,
     window_minutes |-> window_minutes, arg |-> arg, result |-> result]

\* the config argument of a call: None, or the Config object when there is one
Configs == {NoneVal, config}

Init ==
    /\ config_file = NoneVal
    /\ config = NoneVal
    /\ log_lines = <<>>
    /\ call = Idle

\* config = Config(path)
LoadConfig(files) ==
    /\ config = NoneVal
    /\ call = Idle
    /\ \E file \in files :
          /\ config_file' = file
          /\ config' = Config_init(file)
    /\ UNCHANGED <<log_lines, call>>

\* read_log_file appends the next non-empty line of the file; main reads the
\* file after it has built the Config
ReadLine(corpus) ==
    /\ config # NoneVal
    /\ call = Idle
    /\ Len(log_lines) < MaxLines
    /\ \E line \in corpus : log_lines' = Append(log_lines, line)
    /\ UNCHANGED <<config_file, config, call>>

Call_detect_failed_logins ==
    /\ call = Idle
    /\ \E cfg \in Configs :
          call' = Call("detect_failed_logins", cfg, NoneVal, NoneVal, NoneVal,
                       Ok(detect_failed_logins(log_lines, cfg)))
    /\ UNCHANGED <<config_file, config, log_lines>>

Call_count_failed_logins_by_ip ==
    /\ call = Idle
    /\ \E cfg \in Configs :
          call' = Call("count_failed_logins_by_ip", cfg, NoneVal, NoneVal, NoneVal,
                       Ok(count_failed_logins_by_ip(log_lines, cfg)))
    /\ UNCHANGED <<config_file, config, log_lines>>

Call_detect_brute_force_attacks ==
    /\ call = Idle
    /\ \E cfg \in Configs, threshold \in Thresholds :
          call' = Call("detect_brute_force_attacks", cfg, threshold, NoneVal, NoneVal,
                       Ok(detect_brute_force_attacks(log_lines, cfg, threshold)))
    /\ UNCHANGED <<config_file, config, log_lines>>

Call_detect_brute_force_time_window ==
    /\ call = Idle
    /\ \E cfg \in Configs, threshold \in Thresholds, window_minutes \in Windows :
          call' = Call("detect_brute_force_time_window", cfg, threshold, window_minutes,
                       NoneVal,
                       detect_brute_force_time_window(log_lines, cfg, threshold,
                                                      window_minutes))
    /\ UNCHANGED <<config_file, config, log_lines>>

Call_detect_multiple_username_attempts ==
    /\ call = Idle
    /\ \E cfg \in Configs, threshold \in Thresholds :
          call' = Call("detect_multiple_username_attempts", cfg, threshold, NoneVal, NoneVal,
                       detect_multiple_username_attempts(log_lines, cfg, threshold))
    /\ UNCHANGED <<config_file, config, log_lines>>

Call_extract_timestamps ==
    /\ call = Idle
    /\ call' = Call("extract_timestamps", NoneVal, NoneVal, NoneVal, NoneVal,
                    Ok(extract_timestamps(log_lines)))
    /\ UNCHANGED <<config_file, config, log_lines>>

Call_get_time_range ==
    /\ call = Idle
    /\ call' = Call("get_time_range", NoneVal, NoneVal, NoneVal, NoneVal,
                    Ok(get_time_range(log_lines)))
    /\ UNCHANGED <<config_file, config, log_lines>>

\* analyzer.main after the configuration is loaded and the file is read:
\* no report for an empty file, else the six results handed to the report
main(lines, cfg) ==
    IF Len(lines) = 0
    THEN NoneVal
    ELSE [failed_logins   |-> detect_failed_logins(lines, cfg),
          ip_failures     |-> count_failed_logins_by_ip(lines, cfg),
          brute_force_ips |-> detect_brute_force_attacks(lines, cfg, NoneVal),
          time_window_attacks |->
              detect_brute_force_time_window(lines, cfg, NoneVal, NoneVal),
          multiple_username_ips |->
              detect_multiple_username_attempts(lines, cfg, JInt(3)),
          time_range      |-> get_time_range(lines)]

Main ==
    /\ config # NoneVal
    /\ call = Idle
    /\ call' = Call("main", config, NoneVal, NoneVal, NoneVal,
                    Ok(main(log_lines, config)))
    /\ UNCHANGED <<config_file, config, log_lines>>

\* the call returns to its caller
Return ==
    /\ call # Idle
    /\ call' = Idle
    /\ UNCHANGED <<config_file, config, log_lines>>

Next ==
    \/ LoadConfig(Files)
    \/ ReadLine(Corpus)
    \/ Call_detect_failed_logins
    \/ Call_count_failed_logins_by_ip
    \/ Call_detect_brute_force_attacks
    \/ Call_detect_brute_force_time_window
    \/ Call_detect_multiple_username_attempts
    \/ Call_extract_timestamps
    \/ Call_get_time_range
    \/ Main
    \/ Return

Spec == Init /\ [][Next]_vars

(***************************************************************************)
(* Username extraction on its own: lines that several patterns match, some *)
(* of them with a token that is not returned as a username.                *)
(***************************************************************************)
Call_extract_usernames_from_line ==
    /\ call = Idle
    /\ \E i \in 1..Len(log_lines) :
          call' = Call("extract_usernames_from_line", NoneVal, NoneVal, NoneVal,
                       log_lines[i], Ok(extract_usernames_from_line(log_lines[i])))
    /\ UNCHANGED <<config_file, config, log_lines>>

NextUser ==
    \/ LoadConfig(Files)
    \/ ReadLine(UserCorpus)
    \/ Call_extract_usernames_from_line
    \/ Call_detect_multiple_username_attempts
    \/ Return

SpecUser == Init /\ [][NextUser]_vars

(***************************************************************************)
(* The classifier under configured keywords: a configuration file whose    *)
(* keywords are not all in lower case, and lines in mixed case.            *)
(***************************************************************************)
ClassifyFiles ==
    {Missing,
     [state |-> "json",
      value |-> JDict([failed_login_keywords |->
                          JList(<< Str(<<"I","n","v","a","l","i","d"," ","u","s","e","r">>),
                                   Str(<<"d","e","n","i","e","d">>) >>)])]}

NextClassify ==
    \/ LoadConfig(ClassifyFiles)
    \/ ReadLine(ClassifyCorpus)
    \/ Call_detect_failed_logins
    \/ Call_count_failed_logins_by_ip
    \/ Return

SpecClassify == Init /\ [][NextClassify]_vars

(***************************************************************************)
(* Config on its own: every state of the configuration file, and the four  *)
(* getters.  A JSON file holds any value: a list at the top, a number in   *)
(* the place of "detection", and settings that are absent, valid, not      *)
(* positive, of a wrong type, or NaN (json.load reads the literal NaN).     *)
(***************************************************************************)
Absent == [t |-> "absent"]
\* a JSON object with the fields that are not Absent
JObject(fields) ==
    JDict([k \in {x \in DOMAIN fields : fields[x] # Absent} |-> fields[k]])

\* a missing file, an unreadable one, one that is no JSON, and JSON values
ConfigFiles ==
    {Missing, [state |-> "unreadable"], [state |-> "malformed"],
     [state |-> "json", value |-> JList(<<>>)],
     [state |-> "json", value |-> JObject([detection |-> JInt(1)])]}
    \cup
    {[state |-> "json",
      value |-> JObject([detection |-> JObject([brute_force_threshold |-> b,
                                                time_window_threshold |-> t,
                                                time_window_minutes   |-> w]),
                         failed_login_keywords |-> k])] :
        b \in {Absent, JInt(2), JInt(0), Str(<<"2">>)},
        t \in {Absent, JInt(4), JBool(TRUE), JFloat(5)},
        w \in {Absent, JInt(1), JFloat(3), JInt(0), JFloat(-1), NaN},
        k \in {Absent, JList(<<Str(<<"d","e","n","i","e","d">>)>>), JList(<<>>),
               JList(<<Str(<<"4","0","1">>), JInt(403)>>)}}

Call_get_brute_force_threshold ==
    /\ config # NoneVal
    /\ call = Idle
    /\ call' = Call("get_brute_force_threshold", config, NoneVal, NoneVal, NoneVal,
                    Ok(get_brute_force_threshold(config)))
    /\ UNCHANGED <<config_file, config, log_lines>>

Call_get_time_window_threshold ==
    /\ config # NoneVal
    /\ call = Idle
    /\ call' = Call("get_time_window_threshold", config, NoneVal, NoneVal, NoneVal,
                    Ok(get_time_window_threshold(config)))
    /\ UNCHANGED <<config_file, config, log_lines>>

Call_get_time_window_minutes ==
    /\ config # NoneVal
    /\ call = Idle
    /\ call' = Call("get_time_window_minutes", config, NoneVal, NoneVal, NoneVal,
                    Ok(get_time_window_minutes(config)))
    /\ UNCHANGED <<config_file, config, log_lines>>

Call_get_failed_login_keywords ==
    /\ config # NoneVal
    /\ call = Idle
    /\ call' = Call("get_failed_login_keywords", config, NoneVal, NoneVal, NoneVal,
                    Ok(get_failed_login_keywords(config)))
    /\ UNCHANGED <<config_file, config, log_lines>>

NextConfig ==
    \/ LoadConfig(ConfigFiles)
    \/ Call_get_brute_force_threshold
    \/ Call_get_time_window_threshold
    \/ Call_get_time_window_minutes
    \/ Call_get_failed_login_keywords
    \/ Return

SpecConfig == Init /\ [][NextConfig]_vars

(***************************************************************************)
(* The two extractors of log_parser.py on their own, over lines with two   *)
(* addresses, one address and none.                                        *)
(***************************************************************************)
Call_extract_ip_addresses ==
    /\ call = Idle
    /\ call' = Call("extract_ip_addresses", NoneVal, NoneVal, NoneVal, NoneVal,
                    Ok(extract_ip_addresses(log_lines)))
    /\ UNCHANGED <<config_file, config, log_lines>>

NextExtract ==
    \/ LoadConfig(Files)
    \/ ReadLine(ExtractCorpus)
    \/ Call_extract_ip_addresses
    \/ Call_extract_timestamps
    \/ Return

SpecExtract == Init /\ [][NextExtract]_vars

(***************************************************************************)
(* The operations of main (analyzer.py:65-70) run one after another, in    *)
(* any order and any number of times, on the line sequence and the Config  *)
(* that main holds.  Every operation is handed the list object log_lines   *)
(* and the Config object themselves, so what a call leaves in them is what *)
(* the next call finds.  The call record of a run keeps the list and the   *)
(* Config as they were when the run began, the first result of every       *)
(* operation run so far, and the operation run last with its result.       *)
(***************************************************************************)
\* the call main makes of the operation
run_op(op, lines, cfg) ==
    CASE op = "count_failed_logins_by_ip" -> Ok(count_failed_logins_by_ip(lines, cfg))
      [] op = "detect_brute_force_attacks" ->
            Ok(detect_brute_force_attacks(lines, cfg, NoneVal))
      [] op = "detect_brute_force_time_window" ->
            detect_brute_force_time_window(lines, cfg, NoneVal, NoneVal)
      [] op = "detect_multiple_username_attempts" ->
            detect_multiple_username_attempts(lines, cfg, JInt(3))
      [] op = "get_time_range" -> Ok(get_time_range(lines))

\* log_lines with its elements in the opposite order, as a call would leave
\* it that reordered the list it was handed
log_lines_reordered(op, lines) ==
    [i \in 1..Len(lines) |-> lines[Len(lines) + 1 - i]]

\* the list log_lines after the call of op: no operation assigns to an
\* element of log_lines or calls a mutating method on it; the two sorts
\* (failures.sort, valid_timestamps.sort) and the appends act on lists the
\* operation has built itself
log_lines_after(op, lines) == lines

\* the call record of the run after op has returned result
run_record(op, result) ==
    Call("run", config, NoneVal, NoneVal,
         [lines  |-> IF call = Idle THEN log_lines ELSE call.arg.lines,
          config |-> IF call = Idle THEN config ELSE call.arg.config,
          op     |-> op,
          again  |-> call # Idle /\ op \in DOMAIN call.arg.first,
          first  |-> IF call = Idle THEN DictPut(EmptyDict, op, result)
                     ELSE IF op \in DOMAIN call.arg.first THEN call.arg.first
                     ELSE DictPut(call.arg.first, op, result)],
         result)

Run ==
    /\ config # NoneVal
    /\ Len(log_lines) > 0
    /\ call.op \in {"none", "run"}
    /\ \E op \in {"count_failed_logins_by_ip", "detect_brute_force_attacks",
                  "detect_brute_force_time_window",
                  "detect_multiple_username_attempts", "get_time_range"} :
          /\ call' = run_record(op, run_op(op, log_lines, config))
          /\ log_lines' = log_lines_after(op, log_lines)
    /\ UNCHANGED <<config_file, config>>

NextTwice ==
    \/ LoadConfig(Files)
    \/ ReadLine({l \in Corpus : /\ is_failed_line(l, DefaultKeywords)
                                /\ ip_match(l) = Str(<<"1",".","2",".","3",".","4">>)})
    \/ Run
    \/ Return

SpecTwice == Init /\ [][NextTwice]_vars

(***************************************************************************)
(* Properties of the calls.  They speak of the lines classified failed,    *)
(* the first address of a line and the parsed timestamp of a line, and     *)
(* count over line indexes instead of running the loops of the code.       *)
(***************************************************************************)
\* the addresses that occur as the first address of a line
Addresses(lines) ==
    {ip_match(lines[i]).s : i \in {j \in 1..Len(lines) : ip_match(lines[j]) # NoneVal}}

\* the indexes of the lines classified failed whose first address is A
FailedOf(lines, cfg, A) ==
    {i \in 1..Len(lines) :
        /\ is_failed_line(lines[i], failed_login_keywords(cfg))
        /\ ip_match(lines[i]) = Str(A)}

\* C2, first half: count_failed_logins_by_ip maps exactly the addresses with
\* at least one failed line to the number of failed lines whose first
\* address they are
CountIsNumberOfFailedLines ==
    call.op = "count_failed_logins_by_ip" =>
        LET ip_counts == call.result.value
        IN  /\ DOMAIN ip_counts =
                  {A \in Addresses(log_lines) : FailedOf(log_lines, call.config, A) # {}}
            /\ \A A \in DOMAIN ip_counts :
                  ip_counts[A] = Cardinality(FailedOf(log_lines, call.config, A))

\* C2, second half: with a threshold passed, detect_brute_force_attacks
\* returns exactly the addresses whose count is >= threshold, each with
\* that count
FlaggedIffCountReachesThreshold ==
    (call.op = "detect_brute_force_attacks" /\ call.threshold # NoneVal) =>
        LET flagged == call.result.value
        IN  /\ DOMAIN flagged =
                  {A \in Addresses(log_lines) :
                      Cardinality(FailedOf(log_lines, call.config, A)) >= call.threshold.n}
            /\ \A A \in DOMAIN flagged :
                  flagged[A] = Cardinality(FailedOf(log_lines, call.config, A))

\* C2: for every line sequence and address A, count(A) is the number of
\* failed lines whose first dotted-quad is A (a failed line with no address
\* counts nowhere), and detect_brute_force_attacks returns exactly the
\* addresses whose count is >= threshold, each paired with that count
C2_CountAndThreshold ==
    CountIsNumberOfFailedLines /\ FlaggedIffCountReachesThreshold

\* C2's case: a call with threshold 2 over lines of which one is failed
\* and has no address and one is not failed, that flags an address counted
\* exactly 2
C2_Witness ==
    /\ call.op = "detect_brute_force_attacks"
    /\ call.threshold = JInt(2)
    /\ \E i \in 1..Len(log_lines) :
          /\ is_failed_line(log_lines[i], failed_login_keywords(call.config))
          /\ ip_match(log_lines[i]) = NoneVal
    /\ \E A \in DOMAIN call.result.value : call.result.value[A] = 2

\* the parsed timestamp of a line: a datetime, or None when the line has no
\* timestamp or its fields do not form a valid time
ParsedTimestamp(line) ==
    LET t == extract_timestamp(line)
    IN  IF t = NoneVal \/ strptime(t.s) = ValueError THEN NoneVal ELSE strptime(t.s)

\* a datetime in seconds, counted from the start of the year CurrentYear - 10
Seconds(dt) ==
    (toordinal(dt) - days_before_year(CurrentYear - 10)) * 86400 + second_of_day(dt)

\* the events of A: one per index of a failed line with first address A and a
\* parsed timestamp; ts of an event; the events of A in [ts(e), ts(e) + w]
Events(lines, cfg, A) ==
    {i \in FailedOf(lines, cfg, A) : ParsedTimestamp(lines[i]) # NoneVal}
ts(lines, e) == Seconds(ParsedTimestamp(lines[e]))
InWindow(lines, cfg, A, e, w) ==
    {j \in Events(lines, cfg, A) :
        ts(lines, e) <= ts(lines, j) /\ ts(lines, j) <= ts(lines, e) + 60 * w}
Qualifying(lines, cfg, A, th, w) ==
    {e \in Events(lines, cfg, A) : Cardinality(InWindow(lines, cfg, A, e, w)) >= th}

\* C1: with threshold >= 1 and window_minutes > 0 passed,
\* detect_brute_force_time_window flags A iff some event e of A has at least
\* threshold events of A in the inclusive interval [ts(e), ts(e) + window];
\* window_start is then the smallest such ts(e), count the number of A's
\* events in that interval (equal timestamps all counted), and an address
\* with fewer than threshold events is not flagged
C1_TimeWindowContract ==
    (/\ call.op = "detect_brute_force_time_window"
     /\ call.threshold # NoneVal
     /\ call.window_minutes # NoneVal) =>
        LET th == call.threshold.n
            w  == call.window_minutes.n
            Q(A) == Qualifying(log_lines, call.config, A, th, w)
        IN  /\ th >= 1 /\ w > 0
            /\ call.result.status = "ok"
            /\ DOMAIN call.result.value = {A \in Addresses(log_lines) : Q(A) # {}}
            /\ \A A \in DOMAIN call.result.value :
                  /\ Cardinality(Events(log_lines, call.config, A)) >= th
                  /\ \E e \in Q(A) :
                        /\ \A f \in Q(A) : ts(log_lines, e) <= ts(log_lines, f)
                        /\ strptime(call.result.value[A].window_start)
                              = ParsedTimestamp(log_lines[e])
                        /\ call.result.value[A].count
                              = Cardinality(InWindow(log_lines, call.config, A, e, w))

\* C1's case: an address is flagged whose window does not start at its
\* earliest event, and two events with the same timestamp are both counted
C1_Witness ==
    /\ call.op = "detect_brute_force_time_window"
    /\ call.threshold = JInt(2)
    /\ call.window_minutes = JInt(1)
    /\ call.result.status = "ok"
    /\ \E A \in DOMAIN call.result.value :
          /\ call.result.value[A].count = 2
          /\ \E e \in Events(log_lines, call.config, A) :
                ts(log_lines, e) < Seconds(strptime(call.result.value[A].window_start))
          /\ \E e, f \in Events(log_lines, call.config, A) :
                e # f /\ ts(log_lines, e) = ts(log_lines, f)

\* C1's boundary: an event exactly window_minutes after the start of the
\* window is counted in it
C1_BoundaryCounted ==
    /\ call.op = "detect_brute_force_time_window"
    /\ call.threshold = JInt(2)
    /\ call.window_minutes = JInt(1)
    /\ call.result.status = "ok"
    /\ \E A \in DOMAIN call.result.value :
          /\ call.result.value[A].count = 2
          /\ \E e \in Events(log_lines, call.config, A) :
                ts(log_lines, e) = Seconds(strptime(call.result.value[A].window_start)) + 60

\* the distinct usernames extracted from the failed lines with first address A
UsernamesOf(lines, cfg, A) ==
    {extract_usernames_from_line(lines[i]).s :
        i \in {j \in FailedOf(lines, cfg, A) :
                  extract_usernames_from_line(lines[j]) # NoneVal}}

\* C4: with a threshold passed, detect_multiple_username_attempts flags A iff
\* the set of distinct usernames extracted from the failed lines whose first
\* address is A has at least threshold elements; the usernames list of a
\* flagged address holds that set without duplicates in ascending lexical
\* order, and its length is unique_usernames.  Failed lines without a
\* username or without an address add to no set.
C4_UsernameDiversity ==
    (call.op = "detect_multiple_username_attempts" /\ call.threshold # NoneVal) =>
        /\ call.result.status = "ok"
        /\ DOMAIN call.result.value =
              {A \in Addresses(log_lines) :
                  Cardinality(UsernamesOf(log_lines, call.config, A)) >= call.threshold.n}
        /\ \A A \in DOMAIN call.result.value :
              LET usernames == call.result.value[A].usernames
              IN  /\ {usernames[i] : i \in 1..Len(usernames)}
                        = UsernamesOf(log_lines, call.config, A)
                  /\ \A i, j \in 1..Len(usernames) :
                        i < j => str_lt(usernames[i], usernames[j])
                  /\ Len(usernames) = call.result.value[A].unique_usernames

\* C4's case: a flagged address whose failed lines name a username twice and
\* name two usernames in descending order
C4_Witness ==
    /\ call.op = "detect_multiple_username_attempts"
    /\ call.threshold = JInt(2)
    /\ call.result.status = "ok"
    /\ \E A \in DOMAIN call.result.value :
          /\ call.result.value[A].unique_usernames = 2
          /\ \E i, j \in FailedOf(log_lines, call.config, A) :
                /\ i < j
                /\ extract_usernames_from_line(log_lines[i]) # NoneVal
                /\ extract_usernames_from_line(log_lines[j]) # NoneVal
                /\ str_lt(extract_usernames_from_line(log_lines[j]).s,
                          extract_usernames_from_line(log_lines[i]).s)
          /\ \E i, j \in FailedOf(log_lines, call.config, A) :
                /\ i # j
                /\ extract_usernames_from_line(log_lines[i]) # NoneVal
                /\ extract_usernames_from_line(log_lines[i])
                      = extract_usernames_from_line(log_lines[j])

\* C6: in a run driven by a Config whose multiple_username_threshold is T
\* (3 when the configuration gives none), the Username-Diversity Aggregator
\* flags an address iff it has at least T distinct usernames
C6_ConfiguredThresholdUsed ==
    (call.op = "main" /\ call.result.value # NoneVal) =>
        LET T == Config_get(call.config,
                            <<"detection", "multiple_username_threshold">>, JInt(3))
            flagged == call.result.value.multiple_username_ips
        IN  /\ flagged.status = "ok"
            /\ DOMAIN flagged.value =
                  {A \in Addresses(log_lines) :
                      Cardinality(UsernamesOf(log_lines, call.config, A)) >= T.n}

\* C7: no public operation of the detection engine ends in an exception,
\* whatever the lines, with or without a Config, with or without a threshold
\* and a window
C7_NoExceptionEscapes ==
    call.op \in {"detect_failed_logins", "count_failed_logins_by_ip",
                 "detect_brute_force_attacks", "detect_brute_force_time_window",
                 "detect_multiple_username_attempts", "extract_timestamps",
                 "get_time_range"}
        => call.result.status = "ok"

\* a line that matches a timestamp pattern with fields that form no valid time
InvalidTime(line) ==
    /\ extract_timestamp(line) # NoneVal
    /\ ParsedTimestamp(line) = NoneVal

\* C9: a line that matches a timestamp pattern but whose numeric groups form
\* no valid time has an absent timestamp everywhere: extract_timestamps has
\* None at its index, it makes no Time-Window event, and it does not count
\* for the (earliest, latest) pair of get_time_range
C9_InvalidTimestampAbsent ==
    /\ call.op = "extract_timestamps" =>
          \A i \in 1..Len(log_lines) :
              InvalidTime(log_lines[i]) => call.result.value[i] = NoneVal
    /\ call.op = "get_time_range" =>
          \A k \in 1..2 :
              call.result.value[k] # NoneVal =>
                  \E i \in 1..Len(log_lines) :
                      /\ ~InvalidTime(log_lines[i])
                      /\ call.result.value[k] = extract_timestamp(log_lines[i])
    /\ (call.op = "detect_brute_force_time_window" /\ call.result.status = "ok") =>
          \A A \in DOMAIN call.result.value :
              call.result.value[A].count
                  <= Cardinality(Events(log_lines, call.config, A))

\* C10: when the caller passes no threshold, detect_brute_force_attacks uses
\* threshold 3, with a Config that does not set brute_force_threshold and
\* with no Config at all
C10_DefaultThresholdIsThree ==
    (/\ call.op = "detect_brute_force_attacks"
     /\ call.threshold = NoneVal
     /\ (call.config = NoneVal \/ config_file = Missing)) =>
        DOMAIN call.result.value =
            {A \in Addresses(log_lines) :
                Cardinality(FailedOf(log_lines, call.config, A)) >= 3}

\* the patterns, by their place in the list, that match the line, and those
\* among them whose token is returned as a username
Matching(line) ==
    {k \in 1..Len(Patterns) : pattern_match(line, Patterns[k]) # NoneVal}
Acceptable(line) ==
    {k \in Matching(line) : pattern_match(line, Patterns[k]).s \notin NonUsernames}
First(K) == CHOOSE k \in K : \A j \in K : k <= j

C3_AllTokensDiscarded ==
    /\ call.op = "extract_usernames_from_line"
    /\ Cardinality(Matching(call.arg)) >= 2
    /\ Acceptable(call.arg) = {}
    /\ call.result.value = NoneVal

\* a keyword of the list occurs in the line when both are taken in lower case
KeywordOccurs(line, keywords) ==
    \E k \in 1..Len(keywords) : Contains(lower(line), lower(keywords[k].s))

\* C5: detect_failed_logins keeps a line iff at least one configured keyword
\* occurs in it as a substring under case-insensitive comparison, in any
\* letter case of line or keyword, with no word boundary required
C5_ClassifierCaseInsensitive ==
    call.op = "detect_failed_logins" =>
        call.result.value =
            SelectSeq(log_lines,
                      LAMBDA line : KeywordOccurs(line, failed_login_keywords(call.config)))

\* what C8 calls valid: a positive integer (True is the integer 1), a
\* positive number, a non-empty list of strings
PositiveInteger(v) == (v.t = "int" /\ v.n > 0) \/ v = JBool(TRUE)
PositiveNumber(v) ==
    \/ PositiveInteger(v)
    \/ v.t = "float" /\ "halves" \in DOMAIN v /\ v.halves > 0
KeywordList(v) ==
    /\ v.t = "list"
    /\ Len(v.items) > 0
    /\ \A i \in 1..Len(v.items) : v.items[i].t = "str"

\* the setting of a JSON file at a path of keys: Absent when the file does
\* not give it
SettingOf(file, keys) ==
    IF file.state = "json"
    THEN Config_get_from(file.value, keys, Absent)
    ELSE Absent
HasInvalidSetting(file) ==
    LET b == SettingOf(file, <<"detection", "brute_force_threshold">>)
        t == SettingOf(file, <<"detection", "time_window_threshold">>)
        w == SettingOf(file, <<"detection", "time_window_minutes">>)
        k == SettingOf(file, <<"failed_login_keywords">>)
    IN  \/ b # Absent /\ ~PositiveInteger(b)
        \/ t # Absent /\ ~PositiveInteger(t)
        \/ w # Absent /\ ~PositiveNumber(w)
        \/ k # Absent /\ ~KeywordList(k)

\* C8: Config is constructed from every file state, and afterwards every
\* getter returns a valid value: the thresholds positive integers,
\* time_window_minutes a positive number, failed_login_keywords a non-empty
\* list of strings; when a setting of the file is invalid the defaults are
\* used
C8_ConfigAlwaysValid ==
    /\ config # NoneVal =>
          /\ config.t = "Config"
          /\ HasInvalidSetting(config_file) => config = ConfigObj(DEFAULT_CONFIG)
    /\ call.op \in {"get_brute_force_threshold", "get_time_window_threshold"} =>
          PositiveInteger(call.result.value)
    /\ call.op = "get_time_window_minutes" => PositiveNumber(call.result.value)
    /\ call.op = "get_failed_login_keywords" => KeywordList(call.result.value)

(***************************************************************************)
(* The time range of a run and the results for an empty line sequence.     *)
(***************************************************************************)
\* the indexes of the lines that have a parsed timestamp, failed or not
TimedLines(lines) == {i \in 1..Len(lines) : ParsedTimestamp(lines[i]) # NoneVal}

\* get_time_range gives the timestamps of a chronologically earliest and a
\* chronologically latest line among the lines with a parsed timestamp, and
\* (None, None) when there is no such line
TimeRangeIsEarliestAndLatest ==
    call.op = "get_time_range" =>
        IF TimedLines(log_lines) = {}
        THEN call.result.value = <<NoneVal, NoneVal>>
        ELSE \E e, l \in TimedLines(log_lines) :
                /\ \A i \in TimedLines(log_lines) :
                      /\ ts(log_lines, e) <= ts(log_lines, i)
                      /\ ts(log_lines, i) <= ts(log_lines, l)
                /\ call.result.value = <<extract_timestamp(log_lines[e]),
                                         extract_timestamp(log_lines[l])>>

\* for the empty line sequence each of the three aggregators returns an
\* empty map
EmptySequenceGivesEmptyMaps ==
    (/\ Len(log_lines) = 0
     /\ call.op \in {"detect_brute_force_attacks", "detect_brute_force_time_window",
                     "detect_multiple_username_attempts"}) =>
        /\ call.result.status = "ok"
        /\ DOMAIN call.result.value = {}

\* C11: get_time_range returns the chronologically earliest and latest
\* timestamps among all lines, failed or not, that have a parsed timestamp,
\* and (None, None) when no line has one; for the empty line sequence the
\* time range is absent and the three aggregators return empty maps
C11_TimeRangeAndEmptySequence ==
    /\ TimeRangeIsEarliestAndLatest
    /\ EmptySequenceGivesEmptyMaps

(***************************************************************************)
(* The per-line arrays of the extractors.                                  *)
(***************************************************************************)
\* C12: the per-line arrays of extract_ip_addresses and extract_timestamps
\* have the length of the line sequence and are index-aligned with it: entry
\* i is the first address, or the timestamp, of line i, and None when line i
\* has none
C12_DerivedArraysAligned ==
    /\ call.op = "extract_ip_addresses" =>
          /\ Len(call.result.value) = Len(log_lines)
          /\ \A i \in 1..Len(log_lines) :
                call.result.value[i] = ip_match(log_lines[i])
    /\ call.op = "extract_timestamps" =>
          /\ Len(call.result.value) = Len(log_lines)
          /\ \A i \in 1..Len(log_lines) :
                /\ call.result.value[i] = NoneVal
                      <=> (ssh_match(log_lines[i]) = 0 /\ apache_match(log_lines[i]) = 0)
                /\ call.result.value[i] = extract_timestamp(log_lines[i])

RECURSIVE SumOfCounts(_)
SumOfCounts(counts) ==
    IF DOMAIN counts = {} THEN 0
    ELSE LET A == CHOOSE A \in DOMAIN counts : TRUE
         IN  counts[A] + SumOfCounts([B \in DOMAIN counts \ {A} |-> counts[B]])

\* count_failed_logins_by_ip counts at least n lines for A and, when the call
\* was passed a threshold, detect_brute_force_attacks with that threshold
\* flags A
BoundedByCount(A, n) ==
    /\ A \in DOMAIN count_failed_logins_by_ip(log_lines, call.config)
    /\ n <= count_failed_logins_by_ip(log_lines, call.config)[A]
    /\ call.threshold # NoneVal =>
          A \in DOMAIN detect_brute_force_attacks(log_lines, call.config, call.threshold)

\* C14: for every line sequence and address A, the count the Time-Window
\* Aggregator reports for A and the unique_usernames the Username-Diversity
\* Aggregator reports for A are at most count_failed_logins_by_ip's count of
\* A; the counts sum to at most the number of failed lines, which is at most
\* the number of lines; so with equal thresholds an address flagged by either
\* is flagged by detect_brute_force_attacks
C14_CrossAggregatorBounds ==
    /\ (call.op = "detect_brute_force_time_window" /\ call.result.status = "ok") =>
          \A A \in DOMAIN call.result.value :
              BoundedByCount(A, call.result.value[A].count)
    /\ (call.op = "detect_multiple_username_attempts" /\ call.result.status = "ok") =>
          \A A \in DOMAIN call.result.value :
              BoundedByCount(A, call.result.value[A].unique_usernames)
    /\ call.op = "count_failed_logins_by_ip" =>
          /\ SumOfCounts(call.result.value)
                <= Len(detect_failed_logins(log_lines, call.config))
          /\ Len(detect_failed_logins(log_lines, call.config)) <= Len(log_lines)

\* C14's case: the Time-Window Aggregator, passed a threshold, flags an
\* address with a count below the number of its failed lines
C14_Witness ==
    /\ call.op = "detect_brute_force_time_window"
    /\ call.result.status = "ok"
    /\ call.threshold # NoneVal
    /\ \E A \in DOMAIN call.result.value :
          call.result.value[A].count
              < count_failed_logins_by_ip(log_lines, call.config)[A]
====
